---------------------------- MODULE Spec2Model ----------------------------
(***************************************************************************)
(* A model of funda_scraper/scrape.py: the FundaScraper object, its query  *)
(* builder, the two-phase run() (link discovery, then detail scraping and  *)
(* table assembly), fetch_all_links and scrape_pages called on their own,  *)
(* and the body of one detail task.                                        *)
(*                                                                         *)
(* Python values are encoded as follows.                                   *)
(*   None              the empty tuple None; a present value v is Some(v)  *)
(*   str               a sequence of one-character strings                 *)
(*   an URL            a sequence of segments, each a sequence of tokens   *)
(*   list / DataFrame  sequences and records                               *)
(*   a raised error    a record [ok |-> FALSE, err |-> name]               *)
(***************************************************************************)
EXTENDS Integers, Sequences, FiniteSets, TLC

VARIABLES
    \* the fields of a FundaScraper object (scrape.py 42-58)
    area, property_type, want_to, page_start, n_pages, page_end,
    find_past, min_price, max_price, days_since, links, raw_df,
    clean_df, base_url, selectors,
    \* the coroutine the caller awaits ("run", "fetch_all_links" or
    \* "scrape_pages"; "none" before the first call), its position, the error
    \* it raised, and the Phase 1 and Phase 2 task state
    entry, pc, err, tasks, done_queue, urls, content,
    \* the HTTP sessions that the tasks of the call in progress (or of the last
    \* call, until the next one) have opened, each with its owner and
    \* its state; the detail tasks in the order they completed; and the number
    \* of tasks (page and detail) launched so far
    sessions, finished, launched,
    \* the value last returned (or raised) by _build_main_query_url
    built,
    \* one scrape_one_link call: parsed page, position, locals, return value
    soup, step, result, probe, ret

query == <<area, property_type, want_to, page_start, n_pages, page_end,
           find_past, min_price, max_price, days_since>>
config == <<clean_df, base_url, selectors>>
tables == <<links, raw_df, config>>
runvars == <<entry, pc, err, tasks, done_queue, urls, content, sessions,
            finished, launched>>
scrapevars == <<soup, step, result, probe, ret>>
vars == <<query, tables, runvars, built, scrapevars>>

--------------------------------------------------------------------------
(* Bounds of the model *)

\* the largest n_pages a run is started with
MaxPages == 2
\* a call is started only while the tasks launched by the earlier calls and
\* the tasks it launches first are no more than this
MaxTasks == 3
\* the largest number of nth-child fallback selectors a page matches
MaxNthMatched == 2
\* the largest number of elements one selector matches on a page
MaxMatches == 2

--------------------------------------------------------------------------
(* Python values *)

None == <<>>
Some(v) == <<v>>
Val(o) == o[1]

Range(s) == {s[i] : i \in 1..Len(s)}
NoDup(s) == \A i, j \in 1..Len(s) : i # j => s[i] # s[j]
\* every list holding exactly the elements of S once: the orders list(set(..))
\* can produce
Perms(S) == {s \in [1..Cardinality(S) -> S] : Range(s) = S}

RECURSIVE Flatten(_)
Flatten(ss) == IF ss = <<>> THEN <<>> ELSE Head(ss) \o Flatten(Tail(ss))

DigitChars == <<"0", "1", "2", "3", "4", "5", "6", "7", "8", "9">>
RECURSIVE StrNat(_)
StrNat(n) == IF n < 10 THEN <<DigitChars[n + 1]>>
             ELSE StrNat(n \div 10) \o <<DigitChars[(n % 10) + 1]>>
\* str(n) of an int, as f-strings render it
Str(n) == IF n < 0 THEN <<"-">> \o StrNat(0 - n) ELSE StrNat(n)

--------------------------------------------------------------------------
(* Configuration checks: to_buy, check_days_since *)

BuyTokens == {"buy", "koop", "b", "k"}
RentTokens == {"rent", "huur", "r", "h"}
\* str.lower() on the want_to values of the model
Lower(w) == CASE w = "Buy" -> "buy"
              [] w = "RENT" -> "rent"
              [] w = "Koop" -> "koop"
              [] OTHER -> w
WantToValues == BuyTokens \cup RentTokens \cup {"Buy", "RENT", "Koop", "sell", ""}

Raise(e) == [ok |-> FALSE, err |-> e]
Return(v) == [ok |-> TRUE, val |-> v]

\* the property to_buy, of a scraper whose want_to is w
to_buy(w) == IF Lower(w) \in BuyTokens THEN Return(TRUE)
             ELSE IF Lower(w) \in RentTokens THEN Return(FALSE)
             ELSE Raise("ValueError: want_to")

DaysAllowed == {None, Some(1), Some(3), Some(5), Some(10), Some(30)}

CheckDaysSinceIgnoringPast(fp, ds) ==
    IF ds \in DaysAllowed THEN Return(ds) ELSE Raise("ValueError: days_since")

\* the property check_days_since, of a scraper with find_past fp, days_since ds
check_days_since(fp, ds) ==
    IF fp THEN Raise("ValueError: days_since with find_past")
    ELSE IF ds \in DaysAllowed THEN Return(ds)
    ELSE Raise("ValueError: days_since")

--------------------------------------------------------------------------
(* _build_main_query_url *)

BaseSegment(q, a) ==
    <<"{base_url}", "/zoeken/", q, "?selected_area=%5B%22">> \o a \o <<"%22%5D">>

RECURSIVE JoinComma(_)
JoinComma(ts) == IF ts = <<>> THEN <<>>
                 ELSE IF Len(ts) = 1 THEN Head(ts)
                 ELSE Head(ts) \o <<",">> \o JoinComma(Tail(ts))

\* property_type is a comma separated str: the model holds it as the list
\* str.split(",") gives, with <<>> for the (falsy) empty str
PropertySegment(pt) ==
    <<"&object_type=%5B">>
    \o JoinComma([i \in 1..Len(Val(pt)) |-> <<"%22", Val(pt)[i], "%22">>])
    \o <<"%5D">>

AvailabilitySegment == <<"&availability=%22unavailable%22">>

PriceSegment(minp, maxp) ==
    LET min == IF minp = None THEN <<>> ELSE Str(Val(minp))
        max == IF maxp = None THEN <<>> ELSE Str(Val(maxp))
    IN <<"&price=%22">> \o min \o <<"-">> \o max \o <<"%22">>

DateSegment(d) == <<"&publication_date=">> \o Str(Val(d))

AppendIf(url, cond, seg) == IF cond THEN Append(url, seg) ELSE url

PriceBeforeAvailability(u1, fp, minp, maxp) ==
    LET u2 == AppendIf(u1, minp # None \/ maxp # None, PriceSegment(minp, maxp))
    IN AppendIf(u2, fp, AvailabilitySegment)

\* lines 143-149: the availability clause, then the price clause
AvailabilityThenPrice(u1, fp, minp, maxp) ==
    LET u2 == AppendIf(u1, fp, AvailabilitySegment)
    IN AppendIf(u2, minp # None \/ maxp # None, PriceSegment(minp, maxp))

\* _build_main_query_url of a scraper with the given fields
BuildMainQueryUrl(a, pt, w, fp, minp, maxp, ds) ==
    IF ~to_buy(w).ok THEN to_buy(w)
    ELSE
      LET u0 == <<BaseSegment(IF to_buy(w).val THEN "koop" ELSE "huur", a)>>
          u1 == AppendIf(u0, pt # None /\ Val(pt) # <<>>, PropertySegment(pt))
          u3 == AvailabilityThenPrice(u1, fp, minp, maxp)
      IN IF ds = None THEN Return(u3)
         ELSE IF ~check_days_since(fp, ds).ok THEN check_days_since(fp, ds)
         ELSE Return(Append(u3, DateSegment(check_days_since(fp, ds).val)))

_build_main_query_url ==
    BuildMainQueryUrl(area, property_type, want_to, find_past, min_price,
                      max_price, days_since)

\* the str a segmented URL stands for
UrlText(u) == Flatten(u)

--------------------------------------------------------------------------
(* __init__ *)

Max(a, b) == IF a >= b THEN a ELSE b

\* str.lower() and str.replace(" ", "-") on the characters of the model
LowerChar(c) == CASE c = "A" -> "a" [] c = "B" -> "b" [] OTHER -> c
AreaNormalize(a) ==
    [i \in 1..Len(a) |-> IF a[i] = " " THEN "-" ELSE LowerChar(a[i])]

EmptyFrame == [columns |-> <<>>, rows |-> <<>>]

Construct(a, w, ps, np, fp, minp, maxp, ds, pt) ==
    /\ area = AreaNormalize(a)
    /\ property_type = pt
    /\ want_to = w
    /\ find_past = fp
    /\ page_start = Max(ps, 1)
    /\ n_pages = Max(np, 1)
    /\ page_end = Max(ps, 1) + Max(np, 1) - 1
    /\ min_price = minp
    /\ max_price = maxp
    /\ days_since = ds
    /\ links = <<>>
    /\ raw_df = EmptyFrame
    /\ clean_df = EmptyFrame
    /\ base_url = "config.base_url"
    /\ selectors = "config.css_selector"

\* no call made yet
RunIdle ==
    /\ entry = "none"
    /\ pc = "idle"
    /\ err = None
    /\ tasks = <<>>
    /\ done_queue = <<>>
    /\ urls = <<>>
    /\ content = <<>>
    /\ sessions = {}
    /\ finished = <<>>
    /\ launched = 0

\* no scrape_one_link call in progress
ScrapeIdle ==
    /\ soup = [sel |-> <<>>, photos |-> <<>>]
    /\ step = "idle"
    /\ result = <<>>
    /\ probe = 0
    /\ ret = None

--------------------------------------------------------------------------
(* The site: listing URLs, as the lists str.split("/") gives *)

LinkA == <<"https:", "", "www.funda.nl", "koop", "amsterdam", "huis-1">>
LinkB == <<"https:", "", "www.funda.nl", "koop", "amsterdam", "huis-2">>
LinkC == <<"https:", "", "www.funda.nl", "huur", "utrecht", "appartement-3">>
Links == {LinkA, LinkB, LinkC}

\* what can go wrong in one page task (lines 172, 171/175, 182, 186-187)
PageFaults == {"http_status", "transport", "no_script", "bad_json"}

--------------------------------------------------------------------------
(* Phase 1: _get_links_from_one_parent and fetch_all_links *)

\* lines 170 and 226: each task enters its own
\* `async with aiohttp.ClientSession(...)` block, on its first step
OpenSession(owner) == [owner |-> owner, state |-> "open"]

\* the task has taken its first step: it has a session, open or closed
Started(owner) == \E x \in sessions : x.owner = owner

SessionLeakedOnError(exit) ==
    IF exit \in {"transport", "exception"} THEN "open" ELSE "closed"

\* whichever way the task leaves the `async with` block (a return inside it,
\* an exception inside it, or its end), the session is closed
SessionAtExit(exit) == "closed"

CloseSession(ss, owner, exit) ==
    (ss \ {OpenSession(owner)})
       \cup {[owner |-> owner, state |-> SessionAtExit(exit)]}

PageUrlFromZero(main_url, i) == Append(main_url, <<"&search_result=">> \o Str(i - 1))

\* line 206: f"{main_url}&search_result={i}"
PageUrl(main_url, i) == Append(main_url, <<"&search_result=">> \o Str(i))

PageTaskRaising(fault, listing) ==
    IF fault = "none" THEN Return(listing)
    ELSE IF fault \in {"http_status", "no_script"} THEN Return(<<>>)
    ELSE Raise(fault)

PageTaskIndexError(fault, listing) ==
    IF fault = "none" THEN Return(listing)
    ELSE IF fault = "no_script" THEN Raise("IndexError")
    ELSE Return(<<>>)

\* the value a page task resolves to: the de-duplicated url list of the page,
\* or [] on a non-200 status, a missing script block, or any exception
_get_links_from_one_parent(fault, listing) ==
    IF fault = "none" THEN Return(listing) ELSE Return(<<>>)

\* no coroutine of the scraper is in progress: none was called yet, or the one
\* called last has returned (run, fetch_all_links after line 220,
\* scrape_pages after line 320) or raised. Its locals are gone.
NoCallInProgress ==
    \/ pc \in {"idle", "done", "raised"}
    \/ pc = "linked" /\ entry = "fetch_all_links"
    \/ pc = "assembled" /\ entry = "scrape_pages"

\* lines 198-199: an argument of fetch_all_links replaces the field when it is
\* given (it is not clamped as the constructor's is)
ArgOr(field, arg) == IF arg = None THEN field ELSE Val(arg)

\* the page arguments fetch_all_links is called with by a caller of its own
FetchPageStarts == {None, Some(4)}
FetchPageCounts == {None, Some(0), Some(1)}

\* fetch_all_links(ps, np) is called on a scraper with no coroutine in
\* progress, by run() (e = "run", line 344, without arguments) or by a caller
\* of its own (e = "fetch_all_links"). Lines 198-212: the page range is taken
\* from the arguments or the fields, the query URL is built, one coroutine
\* per page index is created, as_completed makes them tasks and
\* fetch_all_links waits for the first result. No task has taken a step yet:
\* none has a session.
FetchStart(e, ps, np) ==
    /\ NoCallInProgress
    /\ launched + ArgOr(n_pages, np) <= MaxTasks
    /\ entry' = e
    /\ built' = Some(_build_main_query_url)
    /\ IF ~_build_main_query_url.ok
       THEN /\ pc' = "raised"
            /\ err' = Some(_build_main_query_url.err)
            /\ tasks' = <<>>
            /\ done_queue' = <<>>
            /\ urls' = <<>>
            /\ UNCHANGED launched
       ELSE /\ pc' = "phase1"
            /\ tasks' = [i \in ArgOr(page_start, ps)..
                                 (ArgOr(page_start, ps) + ArgOr(n_pages, np) - 1) |->
                           [st |-> "running", fault |-> "none", res |-> Return(<<>>),
                            url |-> PageUrl(_build_main_query_url.val, i)]]
            /\ done_queue' = <<>>
            /\ urls' = <<>>
            /\ err' = None
            /\ launched' = launched + ArgOr(n_pages, np)
    /\ content' = <<>>
    /\ sessions' = {}
    /\ finished' = <<>>
    /\ UNCHANGED <<query, tables, scrapevars>>

\* lines 169-171: the first step of a page task opens the task's session and
\* sends its request. as_completed keeps the tasks in a set, so they take
\* their first steps in any order.
PageOpen(i) ==
    /\ pc = "phase1"
    /\ i \in DOMAIN tasks
    /\ tasks[i].st = "running"
    /\ ~Started(<<"page", i>>)
    /\ sessions' = sessions \cup {OpenSession(<<"page", i>>)}
    /\ UNCHANGED <<query, tables, entry, pc, err, tasks, done_queue, urls,
                   content, finished, launched, built, scrapevars>>

\* one page task runs from its request to its end. The first steps of all
\* the tasks are queued before any response can be handled, so no task ends
\* while a sibling has not started.
PageResolve(i) ==
    /\ pc = "phase1"
    /\ i \in DOMAIN tasks
    /\ tasks[i].st = "running"
    /\ \A j \in DOMAIN tasks : Started(<<"page", j>>)
    /\ \E fault \in PageFaults \cup {"none"} :
         \E S \in (IF fault = "none" THEN SUBSET Links ELSE {{}}) :
           \E listing \in Perms(S) :
             /\ tasks' = [tasks EXCEPT ![i] =
                            [@ EXCEPT !.st = "resolved", !.fault = fault,
                                      !.res = _get_links_from_one_parent(fault, listing)]]
             /\ sessions' = CloseSession(sessions, <<"page", i>>, fault)
    /\ done_queue' = Append(done_queue, i)
    /\ UNCHANGED <<query, tables, entry, pc, err, urls, content, finished,
                   launched, built, scrapevars>>

FinalLinksNoSet(us) == {us}

\* line 218: list(set(urls)), in any order
FinalLinks(us) == Perms(Range(us))

\* the value the loop of lines 205-207 leaves in i
LastIndex(ts) == CHOOSE m \in DOMAIN ts : \A j \in DOMAIN ts : j <= m

\* lines 210-216: the next completed task's result is awaited and accumulated
Consume ==
    /\ pc = "phase1"
    /\ done_queue # <<>>
    /\ LET i == Head(done_queue)
           r == tasks[i].res
       IN /\ done_queue' = Tail(done_queue)
          /\ tasks' = [tasks EXCEPT ![i].st = "consumed"]
          /\ IF r.ok
             THEN /\ urls' = urls \o r.val
                  /\ UNCHANGED <<pc, err, page_end, links>>
             ELSE IF r.err = "IndexError"
             THEN \* break: lines 214-220, i being the last index of the loop
                  \* of line 205
                  /\ page_end' = LastIndex(tasks)
                  /\ links' \in FinalLinks(urls)
                  /\ pc' = "linked"
                  /\ UNCHANGED <<urls, err>>
             ELSE /\ pc' = "raised"
                  /\ err' = Some(r.err)
                  /\ UNCHANGED <<urls, page_end, links>>
    /\ UNCHANGED <<area, property_type, want_to, page_start, n_pages, find_past,
                   min_price, max_price, days_since, raw_df, config, entry,
                   content, sessions, finished, launched, built, scrapevars>>

FetchFinishWhenNothingIsReady ==
    /\ pc = "phase1"
    /\ done_queue = <<>>
    /\ links' \in FinalLinks(urls)
    /\ pc' = "linked"
    /\ UNCHANGED <<query, raw_df, config, entry, err, tasks, done_queue, urls,
                   content, sessions, finished, launched, built, scrapevars>>

\* lines 218-220, once every task's result has been consumed
FetchFinish ==
    /\ pc = "phase1"
    /\ \A i \in DOMAIN tasks : tasks[i].st = "consumed"
    /\ links' \in FinalLinks(urls)
    /\ pc' = "linked"
    /\ UNCHANGED <<query, raw_df, config, entry, err, tasks, done_queue, urls,
                   content, sessions, finished, launched, built, scrapevars>>

--------------------------------------------------------------------------
(* Phase 2: scrape_pages *)

\* the keys of config.css_selector, in the order of the record that
\* scrape_one_link builds (lines 248-273 and 296)
SelectorKeys ==
    <<"url", "price", "address", "descrip", "listed_since", "zip_code", "size",
      "year", "living_area", "kind_of_house", "building_type", "num_of_rooms",
      "num_of_bathrooms", "layout", "energy_label", "insulation", "heating",
      "ownership", "exteriors", "parking", "neighborhood_name", "date_list",
      "date_sold", "term", "price_sold", "last_ask_price", "last_ask_price_m2",
      "photo">>

HistoricalColumns == {"term", "price_sold", "date_sold"}

\* the missing value pandas stores for a row assigned None
NaN == <<"NaN">>
LogId == <<"log_id">>

\* the record a detail task returns for a page it could scrape, its field
\* values left abstract (DetailSteps below computes them from a page)
DetailRecord(link) ==
    [k \in 1..Len(SelectorKeys) |-> IF k = 1 THEN link ELSE <<SelectorKeys[k]>>]

ListResult(l) == [tag |-> "list", val |-> l]
NoneResult == [tag |-> "None"]
Running == [tag |-> "running"]

DetailOutcomes == {"ok", "http_status", "exception"}

ScrapeOneLinkRaising(link, outcome) ==
    CASE outcome = "ok" -> ListResult(DetailRecord(link))
      [] outcome = "http_status" -> ListResult(<<>>)
      [] outcome = "exception" -> [tag |-> "raise", err |-> "Exception"]

\* what scrape_one_link returns: the record, [] on a non-200 status (line 230),
\* None on any exception (line 300)
scrape_one_link(link, outcome) ==
    CASE outcome = "ok" -> ListResult(DetailRecord(link))
      [] outcome = "http_status" -> ListResult(<<>>)
      [] outcome = "exception" -> NoneResult

\* scrape_pages() is called, by run() once fetch_all_links has returned
\* (e = "run", line 345) or by a caller of its own on a scraper with no
\* coroutine in progress (e = "scrape_pages"). Lines 308-310: one coroutine
\* per link, which gather makes tasks, all together; scrape_pages waits for
\* the gather. No task has taken a step yet: none has a session.
ScrapeStart(e) ==
    /\ IF e = "run"
       THEN /\ pc = "linked"
            /\ entry = "run"
            /\ UNCHANGED sessions
       ELSE /\ NoCallInProgress
            /\ launched + Len(links) <= MaxTasks
            /\ sessions' = {}
    /\ entry' = e
    /\ content' = [i \in 1..Len(links) |-> Running]
    /\ finished' = <<>>
    /\ pc' = "phase2"
    /\ tasks' = <<>>
    /\ done_queue' = <<>>
    /\ urls' = <<>>
    /\ err' = None
    /\ launched' = launched + Len(links)
    /\ UNCHANGED <<query, tables, built, scrapevars>>

\* lines 225-227: the first step of a detail task opens the task's session and
\* sends its request. gather makes the tasks in the order of the links, and
\* they take their first steps in that order.
DetailOpen(i) ==
    /\ pc = "phase2"
    /\ i \in DOMAIN content
    /\ content[i] = Running
    /\ ~Started(<<"detail", i>>)
    /\ \A j \in 1..(i - 1) : Started(<<"detail", j>>)
    /\ sessions' = sessions \cup {OpenSession(<<"detail", i>>)}
    /\ UNCHANGED <<query, tables, entry, pc, err, tasks, done_queue, urls,
                   content, finished, launched, built, scrapevars>>

\* one detail task runs from its request to its end (no task ends while a
\* sibling has not started); line 310: gather stores its result in the slot of
\* its link, and an exception leaving a task would leave the gather,
\* scrape_pages and run at once
DetailResolve(i) ==
    /\ pc = "phase2"
    /\ i \in DOMAIN content
    /\ content[i] = Running
    /\ \A j \in DOMAIN content : Started(<<"detail", j>>)
    /\ \E o \in DetailOutcomes :
         /\ content' = [content EXCEPT ![i] = scrape_one_link(links[i], o)]
         /\ sessions' = CloseSession(sessions, <<"detail", i>>, o)
         /\ IF scrape_one_link(links[i], o).tag = "raise"
            THEN pc' = "raised" /\ err' = Some(scrape_one_link(links[i], o).err)
            ELSE UNCHANGED <<pc, err>>
    /\ finished' = Append(finished, i)
    /\ UNCHANGED <<query, tables, entry, tasks, done_queue, urls, launched,
                   built, scrapevars>>

RowOf(columns, values) ==
    [c \in Range(columns) |->
        values[CHOOSE k \in 1..Len(columns) : columns[k] = c]]

\* line 313, df.loc[len(df)] = c for each c in turn: pandas appends a list of
\* the frame's width as a row, refuses a list of another length, and appends a
\* row of missing values for None
RECURSIVE LocAppend(_, _)
LocAppend(rows, cs) ==
    IF cs = <<>> THEN Return(rows)
    ELSE LET c == Head(cs)
         IN IF c.tag = "None"
            THEN LocAppend(Append(rows, [k \in Range(SelectorKeys) |-> NaN]),
                           Tail(cs))
            ELSE IF Len(c.val) # Len(SelectorKeys)
            THEN Raise("ValueError: cannot set a row with mismatched columns")
            ELSE LocAppend(Append(rows, RowOf(SelectorKeys, c.val)), Tail(cs))

\* line 315: x.split("/")[4] of the url column
City(x) == IF x = NaN THEN Raise("AttributeError: split")
           ELSE IF Len(x) < 5 THEN Raise("IndexError")
           ELSE Return(<<x[5]>>)

Extend(row, c, v) == [k \in DOMAIN row \cup {c} |-> IF k = c THEN v ELSE row[k]]

DropWhenHistorical(df) ==
    IF find_past
    THEN [columns |-> SelectSeq(df.columns, LAMBDA c : c \notin HistoricalColumns),
          rows |-> [i \in 1..Len(df.rows) |->
                      [c \in DOMAIN df.rows[i] \ HistoricalColumns |-> df.rows[i][c]]]]
    ELSE df

\* lines 317-318
DropHistorical(df) ==
    IF ~find_past
    THEN [columns |-> SelectSeq(df.columns, LAMBDA c : c \notin HistoricalColumns),
          rows |-> [i \in 1..Len(df.rows) |->
                      [c \in DOMAIN df.rows[i] \ HistoricalColumns |-> df.rows[i][c]]]]
    ELSE df

\* lines 306-320 after the gather: the table, or the error raised on the way
AssembleTable(cs) ==
    LET filled == LocAppend(<<>>, cs)
    IN IF ~filled.ok THEN filled
       ELSE IF \E i \in 1..Len(filled.val) : ~City(filled.val[i]["url"]).ok
       THEN City(filled.val[CHOOSE i \in 1..Len(filled.val) :
                    /\ ~City(filled.val[i]["url"]).ok
                    /\ \A j \in 1..(i - 1) : City(filled.val[j]["url"]).ok]["url"])
       ELSE LET withCity == [i \in 1..Len(filled.val) |->
                               Extend(filled.val[i], "city",
                                      City(filled.val[i]["url"]).val)]
                withLog == [i \in 1..Len(withCity) |->
                               Extend(withCity[i], "log_id", LogId)]
            IN Return(DropHistorical([columns |-> SelectorKeys \o <<"city", "log_id">>,
                                      rows |-> withLog]))

GatherAsCompleted(cs, order) == [k \in 1..Len(order) |-> cs[order[k]]]

\* line 310: asyncio.gather returns the results in the order of the tasks it
\* was given, whatever the order they completed in
gather(cs, order) == cs

AssembleOnFirstResult ==
    /\ pc = "phase2"
    /\ \E i \in DOMAIN content : content[i] # Running
    /\ LET ready == SelectSeq(content, LAMBDA c : c # Running)
       IN IF AssembleTable(ready).ok
          THEN /\ raw_df' = AssembleTable(ready).val
               /\ pc' = "assembled"
               /\ UNCHANGED err
          ELSE /\ pc' = "raised"
               /\ err' = Some(AssembleTable(ready).err)
               /\ UNCHANGED raw_df
    /\ UNCHANGED <<query, links, config, entry, tasks, done_queue, urls,
                   content, sessions, finished, launched, built, scrapevars>>

\* the gather has every result: the table is built and stored, or the error
\* leaves scrape_pages and run
Assemble ==
    /\ pc = "phase2"
    /\ \A i \in DOMAIN content : content[i] # Running
    /\ IF AssembleTable(gather(content, finished)).ok
       THEN /\ raw_df' = AssembleTable(gather(content, finished)).val
            /\ pc' = "assembled"
            /\ UNCHANGED err
       ELSE /\ pc' = "raised"
            /\ err' = Some(AssembleTable(gather(content, finished)).err)
            /\ UNCHANGED raw_df
    /\ UNCHANGED <<query, links, config, entry, tasks, done_queue, urls,
                   content, sessions, finished, launched, built, scrapevars>>

\* lines 347-352: run(raw_data=True) returns the raw table; otherwise run
\* waits for async_preprocess_data. (save=True writes the returned table to a
\* file, lines 354-355, which changes no field.)
RunFinish ==
    /\ pc = "assembled"
    /\ entry = "run"
    /\ \E raw_data \in BOOLEAN : pc' = IF raw_data THEN "done" ELSE "cleaning"
    /\ UNCHANGED <<query, tables, entry, err, tasks, done_queue, urls, content,
                   sessions, finished, launched, built, scrapevars>>

\* what async_preprocess_data(df, is_past) returns: a table made by code that
\* is outside scrape.py, known here by what it was made from
Preprocessed(df, is_past) == [preprocessed |-> df, is_past |-> is_past]

\* lines 351-352 and 357-358: the preprocessing returns, its result is stored
\* in clean_df and returned
CleanFinish ==
    /\ pc = "cleaning"
    /\ clean_df' = Preprocessed(raw_df, find_past)
    /\ pc' = "done"
    /\ UNCHANGED <<query, links, raw_df, base_url, selectors, entry, err, tasks,
                   done_queue, urls, content, sessions, finished, launched,
                   built, scrapevars>>

--------------------------------------------------------------------------
(* One scraper: construction, then calls of its coroutines *)

\* the calls of fetch_all_links and of scrape_pages by a caller of their own
FetchCall == \E ps \in FetchPageStarts, np \in FetchPageCounts :
                FetchStart("fetch_all_links", ps, np)
ScrapeCall == ScrapeStart("scrape_pages")

\* the indices a page task can have
TaskIndices == 1..(MaxPages + 3)

\* the arguments the scraper is constructed with: a plain search for houses
\* to buy from page 2 on, with another want_to, or another page_start, or
\* another pair of find_past and days_since
Configs ==
    {[want_to |-> w, page_start |-> 2, find_past |-> FALSE, days_since |-> None] :
        w \in {"buy", "RENT", "sell"}}
    \cup {[want_to |-> "buy", page_start |-> 0, find_past |-> FALSE,
            days_since |-> None]}
    \cup {[want_to |-> "buy", page_start |-> 2, find_past |-> fp, days_since |-> ds] :
            fp \in BOOLEAN, ds \in {None, Some(1), Some(7)}}

\* the plain search, and the searches whose query the scraper refuses
CallConfigs ==
    {c \in Configs : \/ c.want_to = "sell"
                     \/ c.days_since = Some(7)
                     \/ c.find_past /\ c.days_since # None
                     \/ (c.want_to = "buy" /\ c.page_start = 2 /\ ~c.find_past
                           /\ c.days_since = None)}

\* a scraper of one page or of two
Init ==
    /\ \E c \in CallConfigs, np \in 1..2 :
         Construct(<<"A", "m", " ", "s">>, c.want_to, c.page_start, np,
                   c.find_past, None, None, c.days_since, None)
    /\ RunIdle
    /\ built = None
    /\ ScrapeIdle

Next ==
    \/ FetchStart("run", None, None)
    \/ FetchCall
    \/ \E i \in TaskIndices : PageOpen(i)
    \/ \E i \in TaskIndices : PageResolve(i)
    \/ Consume
    \/ FetchFinish
    \/ ScrapeStart("run")
    \/ ScrapeCall
    \/ \E i \in 1..Cardinality(Links) : DetailOpen(i)
    \/ \E i \in 1..Cardinality(Links) : DetailResolve(i)
    \/ Assemble
    \/ RunFinish
    \/ CleanFinish

Spec == Init /\ [][Next]_vars

--------------------------------------------------------------------------
(* A scraper used through run() alone *)

\* a scraper of any of the configurations
InitRun ==
    /\ \E c \in Configs, np \in 0..MaxPages :
         Construct(<<"A", "m", " ", "s">>, c.want_to, c.page_start, np,
                   c.find_past, None, None, c.days_since, None)
    /\ RunIdle
    /\ built = None
    /\ ScrapeIdle

NextRun ==
    \/ FetchStart("run", None, None)
    \/ \E i \in TaskIndices : PageOpen(i)
    \/ \E i \in TaskIndices : PageResolve(i)
    \/ Consume
    \/ FetchFinish
    \/ ScrapeStart("run")
    \/ \E i \in 1..Cardinality(Links) : DetailOpen(i)
    \/ \E i \in 1..Cardinality(Links) : DetailResolve(i)
    \/ Assemble
    \/ RunFinish
    \/ CleanFinish

SpecRun == InitRun /\ [][NextRun]_vars

\* The event loop runs every coroutine that is ready (the steps of run() and
\* of its two phases, the first step of each task), and every HTTP request of
\* a launched task resolves
Fairness ==
    /\ WF_vars(FetchStart("run", None, None) \/ Consume \/ FetchFinish
                \/ ScrapeStart("run") \/ Assemble \/ RunFinish \/ CleanFinish
                \/ (\E i \in TaskIndices : PageOpen(i))
                \/ (\E i \in 1..Cardinality(Links) : DetailOpen(i)))
    /\ \A i \in TaskIndices : WF_vars(PageResolve(i))
    /\ \A i \in 1..Cardinality(Links) : WF_vars(DetailResolve(i))

\* one scraper about to run over two pages, its query valid ("buy") or not
\* ("sell")
InitFair ==
    /\ \E w \in {"buy", "sell"} :
         Construct(<<"A", "m", " ", "s">>, w, 2, 2, FALSE, None, None, None, None)
    /\ RunIdle
    /\ built = None
    /\ ScrapeIdle

SpecFair == InitFair /\ [][NextRun]_vars /\ Fairness

--------------------------------------------------------------------------
(* One detail task, step by step: the body of scrape_one_link *)

\* range(6, 16), line 281
FallbackFirst == 6
FallbackLast == 15

NA == <<"n", "a">>
Whitespace == {" ", "\n", "\r", "\t"}

\* str.replace(c, "")
Remove(t, c) == SelectSeq(t, LAMBDA x : x # c)

RECURSIVE LStrip(_)
LStrip(t) == IF t # <<>> /\ Head(t) \in Whitespace THEN LStrip(Tail(t)) ELSE t
RECURSIVE RStrip(_)
RStrip(t) == IF t # <<>> /\ t[Len(t)] \in Whitespace
             THEN RStrip(SubSeq(t, 1, Len(t) - 1)) ELSE t
\* str.strip()
Strip(t) == RStrip(LStrip(t))

\* line 295: r.replace("\n", "").replace("\r", "").strip()
Clean(t) == Strip(Remove(Remove(t, "\n"), "\r"))

\* lines 274-276: t.split("\r")[0]
RECURSIVE BeforeCR(_)
BeforeCR(t) == IF t = <<>> \/ Head(t) = "\r" THEN <<>>
               ELSE <<Head(t)>> \o BeforeCR(Tail(t))

\* preprocess.clean_date_format: "na" for a text that is no date expression;
\* the letter T stands for a date expression of the page
clean_date_format(t) == IF "T" \in Range(t) THEN <<"d", "a", "t", "e">> ELSE NA

\* the selector config.css_selector holds under key k
Sel(k) == <<"selectors.", k>>
\* f".fd-align-items-center:nth-child({i}) span"
Nth(i) == <<".fd-align-items-center:nth-child(">> \o Str(i) \o <<") span">>

FieldKeys == {SelectorKeys[k] : k \in 2..(Len(SelectorKeys) - 1)}
NthSelectors == {Nth(i) : i \in FallbackFirst..FallbackLast}
AllSelectors == {Sel(k) : k \in FieldKeys} \cup NthSelectors

GetLastMatch(sp, selector) ==
    LET found == sp.sel[selector]
    IN IF Len(found) > 0 THEN found[Len(found)] ELSE NA

\* lines 156-164
get_value_from_css(sp, selector) ==
    LET found == sp.sel[selector]
    IN IF Len(found) > 0 THEN found[1] ELSE NA

\* lines 236-245
ListSinceSelector(w, fp) ==
    IF to_buy(w).val
    THEN (IF fp THEN Sel("date_list") ELSE Sel("listed_since"))
    ELSE (IF fp THEN Nth(9) ELSE Nth(7))

\* lines 247-277
RawRecord(sp, link, w, fp) ==
    [k \in 1..(Len(SelectorKeys) - 1) |->
        IF k = 1 THEN link
        ELSE IF SelectorKeys[k] = "listed_since"
        THEN get_value_from_css(sp, ListSinceSelector(w, fp))
        ELSE IF SelectorKeys[k] = "last_ask_price_m2"
        THEN BeforeCR(get_value_from_css(sp, Sel("last_ask_price_m2")))
        ELSE get_value_from_css(sp, Sel(SelectorKeys[k]))]

RECURSIVE JoinCommaSpace(_)
JoinCommaSpace(ts) == IF ts = <<>> THEN <<>>
                      ELSE IF Len(ts) = 1 THEN Head(ts)
                      ELSE Head(ts) \o <<",", " ">> \o JoinCommaSpace(Tail(ts))

\* lines 289-292: ", ".join of the data-lazy-srcset attributes, which str.join
\* refuses when one of them is None
PhotosString(sp) ==
    IF \E k \in 1..Len(sp.photos) : sp.photos[k] = None
    THEN Raise("TypeError: join")
    ELSE Return(JoinCommaSpace([k \in 1..Len(sp.photos) |-> Val(sp.photos[k])]))

NoSoup == [sel |-> <<>>, photos |-> <<>>]
ScrapedLink == <<"h", "/", "1">>
ListSincePos == CHOOSE k \in 1..Len(SelectorKeys) : SelectorKeys[k] = "listed_since"

(* The pages a detail fetch can bring *)

Plain == <<"x">>
Photo == <<"p">>
DateAt(i) == <<"\n", "T">> \o Str(i) \o <<" ">>
FieldTexts == {NA, <<" ", "x", "\n">>, <<"x", "\r", "y">>, <<"\n", "n", "a", " ">>}

ListsUpTo(S, n) == UNION {[1..m -> S] : m \in 0..n}

BaseSel == [s \in AllSelectors |-> IF s \in NthSelectors THEN <<>> ELSE <<Plain>>]
Override(f, g) == [s \in DOMAIN f |-> IF s \in DOMAIN g THEN g[s] ELSE f[s]]

\* pages that differ in what the selectors of three fields and the photo
\* selector match; the listed-since selectors match a date
FieldDocs ==
    {[sel |-> Override(BaseSel,
                 (Sel("price") :> price) @@ (Sel("address") :> address)
                 @@ (Sel("last_ask_price_m2") :> m2)
                 @@ (Sel("listed_since") :> <<DateAt(0)>>)
                 @@ (Sel("date_list") :> <<DateAt(0)>>)
                 @@ (Nth(7) :> <<DateAt(7)>>) @@ (Nth(9) :> <<DateAt(9)>>)),
      photos |-> photos] :
        price \in ListsUpTo(FieldTexts, MaxMatches),
        address \in {<<>>, <<Plain>>},
        m2 \in ListsUpTo(FieldTexts, 1),
        photos \in ListsUpTo({None, Some(Photo)}, MaxMatches)}

NthChoices ==
    UNION {[S -> {"junk", "date"}] :
             S \in {S \in SUBSET (FallbackFirst..FallbackLast) :
                      Cardinality(S) <= MaxNthMatched}}

\* pages that differ in what the listed-since selectors match: the configured
\* ones nothing, a text that is no date, or a date; at most MaxNthMatched of
\* the nth-child ones a text that is no date, or a date
ProbeDocs ==
    {[sel |-> Override(
                 Override(BaseSel,
                    [s \in {Nth(i) : i \in DOMAIN nth} |->
                        LET i == CHOOSE j \in DOMAIN nth : Nth(j) = s
                        IN IF nth[i] = "date" THEN <<DateAt(i)>> ELSE <<Plain>>]),
                 (Sel("listed_since") :> prim) @@ (Sel("date_list") :> prim)),
      photos |-> <<Some(Photo)>>] :
        nth \in NthChoices,
        prim \in {<<>>, <<Plain>>, <<DateAt(0)>>}}

Docs == FieldDocs \cup ProbeDocs

(* The steps *)

\* lines 226-233: the fetch fails with a status or an exception, or brings a
\* page, which is parsed
ScrapeFetch ==
    /\ step = "idle"
    /\ \E o \in DetailOutcomes :
         CASE o = "http_status" ->
                /\ ret' = Some(ListResult(<<>>))
                /\ step' = "returned"
                /\ UNCHANGED soup
           [] o = "exception" ->
                /\ ret' = Some(NoneResult)
                /\ step' = "returned"
                /\ UNCHANGED soup
           [] o = "ok" ->
                /\ \E d \in Docs : soup' = d
                /\ step' = "parsed"
                /\ UNCHANGED ret
    /\ UNCHANGED <<query, tables, runvars, built, result, probe>>

\* lines 236-280
ScrapeExtract ==
    /\ step = "parsed"
    /\ IF ~to_buy(want_to).ok
       THEN /\ ret' = Some(NoneResult)
            /\ step' = "returned"
            /\ UNCHANGED <<result, probe>>
       ELSE /\ result' = RawRecord(soup, ScrapedLink, want_to, find_past)
            /\ IF clean_date_format(result'[ListSincePos]) = NA
               THEN step' = "fallback" /\ probe' = FallbackFirst
               ELSE step' = "photos" /\ UNCHANGED probe
            /\ UNCHANGED ret
    /\ UNCHANGED <<query, tables, runvars, built, soup>>

\* lines 282-287: one iteration of the fallback loop
ProbeOnce(res, sp, i) ==
    IF clean_date_format(get_value_from_css(sp, Nth(i))) = NA THEN res
    ELSE [res EXCEPT ![ListSincePos] = get_value_from_css(sp, Nth(i))]

ScrapeProbe ==
    /\ step = "fallback"
    /\ result' = ProbeOnce(result, soup, probe)
    /\ probe' = probe + 1
    /\ step' = IF probe = FallbackLast THEN "photos" ELSE "fallback"
    /\ UNCHANGED <<query, tables, runvars, built, soup, ret>>

\* lines 289-300
ScrapeFinish ==
    /\ step = "photos"
    /\ ret' = IF PhotosString(soup).ok
              THEN Some(ListResult([k \in 1..Len(result) |-> Clean(result[k])]
                                   \o <<PhotosString(soup).val>>))
              ELSE Some(NoneResult)
    /\ step' = "returned"
    /\ UNCHANGED <<query, tables, runvars, built, soup, result, probe>>

InitScrape ==
    /\ \E w \in {"buy", "rent"}, fp \in BOOLEAN :
         Construct(<<"A", "m", "s">>, w, 1, 1, fp, None, None, None, None)
    /\ RunIdle
    /\ built = None
    /\ soup = NoSoup
    /\ step = "idle"
    /\ result = <<>>
    /\ probe = 0
    /\ ret = None

NextScrape ==
    \/ ScrapeFetch
    \/ ScrapeExtract
    \/ ScrapeProbe
    \/ ScrapeFinish

SpecScrape == InitScrape /\ [][NextScrape]_vars

--------------------------------------------------------------------------
(* The query builder on its own: a scraper is constructed and its query    *)
(* URL is built                                                            *)

AreaInputs == {<<"A", "m", "s">>, <<"d", "e", " ", "B">>}
PriceInputs == {None, Some(0), Some(200000), Some(500000)}
DaysInputs == {None, Some(1), Some(7), Some(30)}
PropertyInputs == {None, Some(<<>>), Some(<<"house">>), Some(<<"house", "apartment">>)}

InitQuery ==
    /\ \E a \in AreaInputs, w \in WantToValues, fp \in BOOLEAN,
          minp \in PriceInputs, maxp \in PriceInputs \ {Some(0)},
          ds \in DaysInputs, pt \in PropertyInputs :
         Construct(a, w, 1, 1, fp, minp, maxp, ds, pt)
    /\ RunIdle
    /\ built = None
    /\ ScrapeIdle

BuildUrl ==
    /\ built = None
    /\ built' = Some(_build_main_query_url)
    /\ UNCHANGED <<query, tables, runvars, scrapevars>>

NextQuery == BuildUrl

SpecQuery == InitQuery /\ [][NextQuery]_vars

--------------------------------------------------------------------------
(* reset: a scraper, fresh or after a run, is reset any number of times    *)
(* and then started                                                        *)

\* the largest number of arguments one reset call supplies
MaxResetArgs == 2

\* lines 83-100: `if arg is not None: self.field = arg`
Overwrite(old, arg) == IF arg # None THEN Val(arg) ELSE old

\* the same for a field that may hold None, whose value v is kept as Some(v)
OverwriteOptional(old, arg) == IF arg # None THEN arg ELSE old

Unclamped(arg) == arg

\* lines 90 and 92: max(arg, 1) of a supplied page_start or n_pages
Clamped(arg) == IF arg = None THEN None ELSE Some(Max(Val(arg), 1))

\* the values a call of reset is given for each parameter (None: omitted)
ArgValues ==
    [area |-> {None, Some(<<"A", " ", "b">>)},
     property_type |-> {None, Some(<<"house">>)},
     want_to |-> {None, Some("rent")},
     page_start |-> {None, Some(0), Some(3)},
     n_pages |-> {None, Some(0), Some(2)},
     find_past |-> {None, Some(FALSE), Some(TRUE)},
     min_price |-> {None, Some(0)},
     max_price |-> {None, Some(500000)},
     days_since |-> {None, Some(30)}]

ResetArgs ==
    [area : ArgValues.area,
     property_type : ArgValues.property_type,
     want_to : ArgValues.want_to,
     page_start : ArgValues.page_start,
     n_pages : ArgValues.n_pages,
     find_past : ArgValues.find_past,
     min_price : ArgValues.min_price,
     max_price : ArgValues.max_price,
     days_since : ArgValues.days_since]

Supplied(a) == {f \in DOMAIN a : a[f] # None}

\* the calls of reset that supply at most MaxResetArgs arguments (a union of
\* singletons, which is enumerated once)
ResetCalls ==
    UNION {{a} : a \in {b \in ResetArgs : Cardinality(Supplied(b)) <= MaxResetArgs}}

\* lines 70-100, called while no coroutine of the scraper is in progress
reset(a) ==
    /\ NoCallInProgress
    /\ area' = Overwrite(area, a.area)
    /\ property_type' = OverwriteOptional(property_type, a.property_type)
    /\ want_to' = Overwrite(want_to, a.want_to)
    /\ page_start' = Overwrite(page_start, Clamped(a.page_start))
    /\ n_pages' = Overwrite(n_pages, Clamped(a.n_pages))
    /\ find_past' = Overwrite(find_past, a.find_past)
    /\ min_price' = OverwriteOptional(min_price, a.min_price)
    /\ max_price' = OverwriteOptional(max_price, a.max_price)
    /\ days_since' = OverwriteOptional(days_since, a.days_since)
    /\ UNCHANGED <<page_end, tables, runvars, built, scrapevars>>

\* the state in which run() leaves a scraper that found the links ls on its
\* one page and scraped each of them
HasRun(ls) ==
    /\ links = ls
    /\ raw_df = AssembleTable([i \in 1..Len(ls) |->
                                 ListResult(DetailRecord(ls[i]))]).val
    /\ clean_df = EmptyFrame
    /\ base_url = "config.base_url"
    /\ selectors = "config.css_selector"
    /\ entry = "run"
    /\ pc = "done"
    /\ err = None
    /\ tasks = <<>>
    /\ done_queue = <<>>
    /\ urls = <<>>
    /\ content = [i \in 1..Len(ls) |-> ListResult(DetailRecord(ls[i]))]
    /\ sessions = {[owner |-> <<"page", page_start>>, state |-> "closed"]}
                     \cup {[owner |-> <<"detail", i>>, state |-> "closed"] :
                              i \in 1..Len(ls)}
    /\ finished = [i \in 1..Len(ls) |-> i]
    /\ launched = 1 + Len(ls)
    /\ built = Some(_build_main_query_url)

InitReset ==
    \E fp \in BOOLEAN :
      \/ /\ Construct(<<"A", "m", " ", "s">>, "buy", 2, 1, fp, None, None, None, None)
         /\ RunIdle
         /\ built = None
         /\ ScrapeIdle
      \/ /\ area = AreaNormalize(<<"A", "m", " ", "s">>)
         /\ property_type = None
         /\ want_to = "buy"
         /\ find_past = fp
         /\ page_start = 2
         /\ n_pages = 1
         /\ page_end = 2
         /\ min_price = None
         /\ max_price = None
         /\ days_since = None
         /\ HasRun(<<LinkA>>)
         /\ ScrapeIdle

NextReset ==
    \/ \E a \in ResetCalls : reset(a)
    \/ FetchStart("run", None, None)
    \/ FetchCall

SpecReset == InitReset /\ [][NextReset]_vars

\* reset alone: any sequence of calls of reset
NextResetOnly == \E a \in ResetCalls : reset(a)

\* a scraper constructed for the one page 3 of the listings on offer, after
\* run() has finished
InitResetOnly ==
    /\ area = AreaNormalize(<<"A", "m", " ", "s">>)
    /\ property_type = None
    /\ want_to = "buy"
    /\ find_past = FALSE
    /\ page_start = 3
    /\ n_pages = 1
    /\ page_end = 3
    /\ min_price = None
    /\ max_price = None
    /\ days_since = None
    /\ HasRun(<<LinkA>>)
    /\ ScrapeIdle

SpecResetOnly == InitResetOnly /\ [][NextResetOnly]_vars

--------------------------------------------------------------------------
(* Claims about link discovery *)

Returned(i) == Range(tasks[i].res.val)

\* C1: after fetch_all_links returns, whatever the page results and the order
\* the page tasks completed in, self.links holds exactly the URLs returned by
\* the page tasks, each once.
C1_LinksAreTheDistinctUnion ==
    pc = "linked" =>
        /\ \A i \in DOMAIN tasks : tasks[i].res.ok
        /\ Range(links) = UNION {Returned(i) : i \in DOMAIN tasks}
        /\ NoDup(links)

\* the two pages returned {A,B} and {B,C}, the second completing first
C1_Witness ==
    /\ pc = "linked"
    /\ DOMAIN tasks = {2, 3}
    /\ Returned(2) = {LinkA, LinkB}
    /\ Returned(3) = {LinkB, LinkC}
    /\ Len(urls) = 4 /\ urls[1] = LinkC
    /\ Range(links) = {LinkA, LinkB, LinkC}
    /\ Len(links) = 3

\* C2: a page whose fetch fails (status, transport, missing script block, bad
\* JSON) resolves to the empty list, never makes fetch_all_links raise, and
\* the final links hold every link returned by the other pages.
C2_PageFaultsAreIsolated ==
    /\ \A i \in DOMAIN tasks :
         (tasks[i].st # "running" /\ tasks[i].fault # "none")
            => tasks[i].res = Return(<<>>)
    /\ (pc = "raised" => tasks = <<>>)
    /\ pc = "linked" =>
         \A i \in DOMAIN tasks :
            tasks[i].fault = "none" =>
               /\ tasks[i].res.ok
               /\ Returned(i) \subseteq Range(links)

\* a failed page was consumed before a page that returned two links
C2_Witness ==
    /\ pc = "linked"
    /\ DOMAIN tasks = {2, 3}
    /\ tasks[2].fault = "transport"
    /\ tasks[3].fault = "none"
    /\ Returned(3) = {LinkA, LinkC}
    /\ Range(links) = {LinkA, LinkC}

--------------------------------------------------------------------------
(* Claims about run() and the table *)

ConfigInvalid ==
    \/ Lower(want_to) \notin (BuyTokens \cup RentTokens)
    \/ (days_since # None /\ find_past)
    \/ days_since \notin DaysAllowed

ConfigErrors ==
    {"ValueError: want_to", "ValueError: days_since with find_past",
     "ValueError: days_since"}

\* C3: with a valid configuration run() never raises, whichever page and
\* detail fetches fail.
C3_ValidRunNeverRaises == pc = "raised" => ConfigInvalid

Succeeded(i) == content[i].tag = "list" /\ content[i].val # <<>>
RECURSIVE SucceededLinks(_)
SucceededLinks(i) ==
    IF i > Len(links) THEN <<>>
    ELSE (IF Succeeded(i) THEN <<links[i]>> ELSE <<>>) \o SucceededLinks(i + 1)

ScrapePagesEnded ==
    \/ pc \in {"assembled", "cleaning", "done"}
    \/ pc = "raised" /\ content # <<>>

FullyPopulated(df) ==
    \A i \in 1..Len(df.rows) :
        /\ DOMAIN df.rows[i] = Range(df.columns)
        /\ \A c \in DOMAIN df.rows[i] : df.rows[i][c] # NaN

\* C4: after scrape_pages, raw_df has one fully populated row for each link
\* whose detail task succeeded and no row for a link whose task returned a
\* failure marker.
C4_OneFullRowPerSucceededLink ==
    ScrapePagesEnded =>
        /\ [i \in 1..Len(raw_df.rows) |-> raw_df.rows[i]["url"]] = SucceededLinks(1)
        /\ FullyPopulated(raw_df)

\* a call of fetch_all_links, by run() or by a caller of its own, with any
\* arguments (the other call a scraper with no coroutine in progress can take
\* is one of scrape_pages, which starts Phase 2)
FetchCalled == NoCallInProgress /\ pc' # "phase2"

\* C5: an invalid want_to or days_since makes fetch_all_links, called by run()
\* or on its own with any page arguments, raise a ValueError while it builds
\* the query URL: no page or detail task is ever started and links and raw_df
\* keep their values.
C5_ConfigErrorBeforeAnyTask ==
    /\ [](ConfigInvalid => (tasks = <<>> /\ content = <<>> /\ launched = 0
                            /\ pc \notin {"phase1", "linked", "cleaning", "done"}))
    /\ [][(FetchCalled /\ ConfigInvalid) =>
            /\ pc' = "raised"
            /\ err' # None /\ Val(err') \in ConfigErrors
            /\ tasks' = <<>> /\ content' = <<>>
            /\ links' = links /\ raw_df' = raw_df]_vars

\* run() raised on days_since given together with find_past
C5_Witness ==
    /\ entry = "run"
    /\ pc = "raised"
    /\ Lower(want_to) \in BuyTokens
    /\ find_past /\ days_since = Some(1)
    /\ err = Some("ValueError: days_since with find_past")
    /\ tasks = <<>> /\ links = <<>> /\ raw_df = EmptyFrame

\* C7: a table produced by scrape_pages holds the columns term, date_sold and
\* price_sold if and only if find_past is true.
C7_HistoricalColumnsFollowFindPast ==
    pc \in {"assembled", "cleaning", "done"} =>
        /\ find_past => HistoricalColumns \subseteq Range(raw_df.columns)
        /\ ~find_past => HistoricalColumns \cap Range(raw_df.columns) = {}
        /\ \A i \in 1..Len(raw_df.rows) :
              DOMAIN raw_df.rows[i] = Range(raw_df.columns)

\* a historical table of two rows, and a current one
C7_Witness ==
    /\ pc = "assembled"
    /\ find_past
    /\ Len(raw_df.rows) = 2
    /\ "price_sold" \in DOMAIN raw_df.rows[2]

--------------------------------------------------------------------------
(* Claims about the query URL *)

Head1(seg) == seg[1]
Without(u, h) == SelectSeq(u, LAMBDA seg : Head1(seg) # h)
Has(u, h) == \E k \in 1..Len(u) : Head1(u[k]) = h
Pos(u, h) == CHOOSE k \in 1..Len(u) : Head1(u[k]) = h

ClauseHeads ==
    <<"&object_type=%5B", "&availability=%22unavailable%22", "&price=%22",
      "&publication_date=">>

\* the URL of the scraper's query with some of its fields replaced
UrlWith(pt, fp, minp, maxp, ds) ==
    BuildMainQueryUrl(area, pt, want_to, fp, minp, maxp, ds)

\* C6: the query URL is the base segment for the intent and the area, then,
\* in this order, the object_type clause iff property_type is set, the
\* availability clause iff find_past, the price clause iff a bound is set
\* (an absent bound rendered empty), the publication_date clause iff
\* days_since is set; changing one option changes only its clause.
C6_QueryUrlComposition ==
    (built # None /\ Val(built).ok) =>
      LET u == Val(built).val
          q == IF Lower(want_to) \in BuyTokens THEN "koop" ELSE "huur"
      IN /\ u[1] = <<"{base_url}", "/zoeken/", q, "?selected_area=%5B%22">>
                      \o area \o <<"%22%5D">>
         /\ \A k \in 2..Len(u) : \E c \in 1..4 : Head1(u[k]) = ClauseHeads[c]
         /\ \A k, l \in 2..Len(u) : \A c, d \in 1..4 :
               (k < l /\ Head1(u[k]) = ClauseHeads[c] /\ Head1(u[l]) = ClauseHeads[d])
                  => c < d
         /\ Has(u, ClauseHeads[1]) <=>
               (property_type # None /\ Val(property_type) # <<>>)
         /\ Has(u, ClauseHeads[2]) <=> find_past
         /\ Has(u, ClauseHeads[3]) <=> (min_price # None \/ max_price # None)
         /\ Has(u, ClauseHeads[4]) <=> days_since # None
         /\ (min_price = Some(200000) /\ max_price = None) =>
               u[Pos(u, ClauseHeads[3])] =
                  <<"&price=%22", "2", "0", "0", "0", "0", "0", "-", "%22">>
         /\ \A pt \in PropertyInputs :
               UrlWith(pt, find_past, min_price, max_price, days_since).ok =>
                  Without(UrlWith(pt, find_past, min_price, max_price, days_since).val,
                          ClauseHeads[1]) = Without(u, ClauseHeads[1])
         /\ \A fp \in BOOLEAN :
               UrlWith(property_type, fp, min_price, max_price, days_since).ok =>
                  Without(UrlWith(property_type, fp, min_price, max_price, days_since).val,
                          ClauseHeads[2]) = Without(u, ClauseHeads[2])
         /\ \A minp, maxp \in PriceInputs :
               UrlWith(property_type, find_past, minp, maxp, days_since).ok =>
                  Without(UrlWith(property_type, find_past, minp, maxp, days_since).val,
                          ClauseHeads[3]) = Without(u, ClauseHeads[3])
         /\ \A ds \in DaysInputs :
               UrlWith(property_type, find_past, min_price, max_price, ds).ok =>
                  Without(UrlWith(property_type, find_past, min_price, max_price, ds).val,
                          ClauseHeads[4]) = Without(u, ClauseHeads[4])

\* a buy query with every optional clause but the availability one, and the
\* price clause of min_price=200000, max_price=None
C6_Witness ==
    /\ built # None /\ Val(built).ok
    /\ want_to = "Koop"
    /\ property_type = Some(<<"house", "apartment">>)
    /\ min_price = Some(200000) /\ max_price = None
    /\ days_since = Some(30)
    /\ Len(Val(built).val) = 4
    /\ UrlText(<<Val(built).val[3]>>) =
          <<"&price=%22", "2", "0", "0", "0", "0", "0", "-", "%22">>

--------------------------------------------------------------------------
(* Claims about one detail task *)

PrimaryValue == get_value_from_css(soup, ListSinceSelector(want_to, find_past))
ProbeValue(i) == get_value_from_css(soup, Nth(i))
NonSentinel(i) == clean_date_format(ProbeValue(i)) # NA
FirstNonSentinel ==
    CHOOSE i \in FallbackFirst..FallbackLast :
        NonSentinel(i) /\ \A j \in FallbackFirst..(i - 1) : ~NonSentinel(j)

\* C8: the listed-since fallback, entered when the cleaned primary value is
\* "na", stops probing at the first nth-child selector (6..15, ascending)
\* whose cleaned value is not "na" and stores that probe's value; if every
\* probe yields "na" the field remains "na".
C8_FirstNonSentinelProbeIsKept ==
    /\ (step = "fallback" /\ probe > FallbackFirst) =>
          \A j \in FallbackFirst..(probe - 1) : ~NonSentinel(j)
    /\ (step = "photos" /\ clean_date_format(PrimaryValue) = NA) =>
          IF \E i \in FallbackFirst..FallbackLast : NonSentinel(i)
          THEN result[ListSincePos] = ProbeValue(FirstNonSentinel)
          ELSE Clean(result[ListSincePos]) = NA

\* the positions of the record whose value comes from one configured selector
OrdinaryPositions == {k \in 2..(Len(SelectorKeys) - 1) : k # ListSincePos}
Matches(k) == soup.sel[Sel(SelectorKeys[k])]
KeyPos(key) == CHOOSE k \in 1..Len(SelectorKeys) : SelectorKeys[k] = key
FullRecord ==
    /\ step = "returned"
    /\ ret # None
    /\ Val(ret).tag = "list"
    /\ Len(Val(ret).val) = Len(SelectorKeys)
Recorded(k) == Val(ret).val[k]

\* C9 as stated: the extractor returns "na" if and only if the selector
\* matches nothing, and otherwise the field records the first match's text
\* with newlines and carriage returns removed and the ends trimmed.
C9_SentinelIffNoMatch ==
    result # <<>> =>
        \A k \in OrdinaryPositions :
            /\ result[k] = NA <=> Len(Matches(k)) = 0
            /\ (FullRecord /\ Len(Matches(k)) > 0) =>
                   Recorded(k) = Clean(Matches(k)[1])

\* C9, amended: the extractor returns "na" when the selector matches nothing
\* and otherwise the first match's text, which may itself be "na"; the field
\* records that text, cut at its first carriage return for last_ask_price_m2,
\* with newlines and carriage returns removed and the ends trimmed.
C9_FirstMatchOrSentinel ==
    result # <<>> =>
        \A k \in OrdinaryPositions :
            LET first == IF k = KeyPos("last_ask_price_m2")
                         THEN BeforeCR(Matches(k)[1]) ELSE Matches(k)[1]
            IN /\ Len(Matches(k)) = 0 => result[k] = NA
               /\ Len(Matches(k)) > 0 => result[k] = first
               /\ result[k] = NA <=> (Len(Matches(k)) = 0 \/ first = NA)
               /\ FullRecord =>
                    /\ Recorded(k) = Clean(result[k])
                    /\ "\n" \notin Range(Recorded(k))
                    /\ "\r" \notin Range(Recorded(k))
                    /\ Recorded(k) # <<>> =>
                          /\ Recorded(k)[1] \notin Whitespace
                          /\ Recorded(k)[Len(Recorded(k))] \notin Whitespace

\* a record whose price selector matched two elements, whose address selector
\* matched none and whose last_ask_price_m2 text holds a carriage return
C9_Witness ==
    /\ FullRecord
    /\ Matches(KeyPos("price")) = << <<" ", "x", "\n">>, NA >>
    /\ Recorded(KeyPos("price")) = <<"x">>
    /\ Matches(KeyPos("address")) = <<>>
    /\ Recorded(KeyPos("address")) = NA
    /\ Matches(KeyPos("last_ask_price_m2")) = << <<"x", "\r", "y">> >>
    /\ Recorded(KeyPos("last_ask_price_m2")) = <<"x">>

\* C10: for a page fetched with status 200, whatever markup is missing from
\* it, scrape_one_link returns a full record in which the unmatched fields
\* hold "na".
C10_MissingMarkupNeverFailsTheTask ==
    (step = "returned" /\ soup # NoSoup) =>
        /\ FullRecord
        /\ \A k \in OrdinaryPositions :
              Len(Matches(k)) = 0 => Recorded(k) = NA

--------------------------------------------------------------------------
(* Claims about the order of the table *)

RECURSIVE IsSubseq(_, _)
IsSubseq(a, b) ==
    IF a = <<>> THEN TRUE
    ELSE IF b = <<>> THEN FALSE
    ELSE IF Head(a) = Head(b) THEN IsSubseq(Tail(a), Tail(b))
    ELSE IsSubseq(a, Tail(b))

RECURSIVE SucceededSlots(_)
SucceededSlots(i) ==
    IF i > Len(content) THEN <<>>
    ELSE (IF Succeeded(i) THEN <<i>> ELSE <<>>) \o SucceededSlots(i + 1)

UrlColumn(df) == [k \in 1..Len(df.rows) |-> df.rows[k]["url"]]

\* C11: whatever order the detail tasks complete in, the url column of the
\* table that scrape_pages stored, read top to bottom, is a subsequence of
\* self.links in its order, and row k of the table is the record of the k-th
\* link that produced a row.
C11_RowsFollowLinkOrder ==
    pc \in {"assembled", "cleaning", "done"} =>
         /\ IsSubseq(UrlColumn(raw_df), links)
         /\ Len(raw_df.rows) = Len(SucceededSlots(1))
         /\ \A k \in 1..Len(raw_df.rows) :
              /\ raw_df.rows[k]["url"] = links[SucceededSlots(1)[k]]
              /\ \A c \in Range(SelectorKeys) \cap DOMAIN raw_df.rows[k] :
                   raw_df.rows[k][c] =
                     RowOf(SelectorKeys, content[SucceededSlots(1)[k]].val)[c]

\* a table of three rows whose detail tasks completed last link first
C11_Witness ==
    /\ pc = "assembled"
    /\ Len(raw_df.rows) = 3
    /\ finished = <<3, 1, 2>>


--------------------------------------------------------------------------
(* Claims about the two phases *)

\* scrape_pages starts, in run() or called on its own
DetailLaunch == pc # "phase2" /\ pc' = "phase2"

\* run() starts scrape_pages after a fetch_all_links that took the page range
\* of the fields and consumed every page task's result
DetailLaunchSeesPhase1Over ==
    /\ pc = "linked"
    /\ entry = "run"
    /\ \A i \in DOMAIN tasks : tasks[i].st = "consumed"
    /\ DOMAIN tasks = page_start..(page_start + n_pages - 1)

OneDetailTaskPerLink ==
    /\ links' = links
    /\ DOMAIN content' = 1..Len(links)
    /\ \A i \in DOMAIN content' :
         content'[i] = Running /\ ~(Started(<<"detail", i>>))'

LinksReadOnly ==
    /\ links' = links
    /\ DOMAIN content' = IF pc = "linked" THEN 1..Len(links) ELSE DOMAIN content

\* C12: in run() no detail task exists until every page task has resolved and
\* self.links has its final value; scrape_pages, in run() or called on its
\* own, launches exactly one detail task per element of self.links; and
\* self.links is not modified from the start of scrape_pages until run()
\* returns.
C12_PhaseOrdering ==
    /\ [](pc \in {"idle", "phase1", "linked"} => content = <<>>)
    /\ [][DetailLaunch => /\ OneDetailTaskPerLink
                          /\ (entry' = "run" => DetailLaunchSeesPhase1Over)]_vars
    /\ [][(entry = "run" /\ pc \in {"linked", "phase2", "assembled", "cleaning"}) =>
            LinksReadOnly]_vars

\* three detail tasks just launched, after two page tasks; none has taken its
\* first step
C12_Witness ==
    /\ entry = "run"
    /\ pc = "phase2"
    /\ n_pages = 2
    /\ Len(links) = 3
    /\ DOMAIN content = 1..3
    /\ \A i \in DOMAIN content : content[i] = Running /\ ~Started(<<"detail", i>>)


--------------------------------------------------------------------------
(* Claims about termination *)

RunEnded == pc \in {"done", "raised"}

PageTasksUnresolved == {i \in DOMAIN tasks : tasks[i].st = "running"}
DetailTasksUnresolved == {i \in DOMAIN content : content[i] = Running}

RunInProgress == pc \in {"phase1", "linked", "phase2", "assembled", "cleaning"}

\* a task whose request hangs holds its phase back and no sibling: a task
\* that has not started can take its first step (the detail tasks in the
\* order of the links), and once all have started, each one whose request is
\* in flight can resolve
HungTaskBlocksOnlyItsPhase ==
    /\ PageTasksUnresolved # {} => pc = "phase1"
    /\ DetailTasksUnresolved # {} => pc = "phase2"
    /\ \A i \in PageTasksUnresolved :
         IF ~Started(<<"page", i>>) THEN ENABLED PageOpen(i)
         ELSE (\A j \in DOMAIN tasks : Started(<<"page", j>>))
                 => ENABLED PageResolve(i)
    /\ \A i \in DetailTasksUnresolved :
         IF ~Started(<<"detail", i>>)
         THEN (\A j \in 1..(i - 1) : Started(<<"detail", j>>))
                 => ENABLED DetailOpen(i)
         ELSE (\A j \in DOMAIN content : Started(<<"detail", j>>))
                 => ENABLED DetailResolve(i)

\* C13: a run never ends (returns or raises) while a task it launched is
\* unresolved, an unresolved task blocks its phase but not its siblings, and
\* when the scheduling is fair and every request resolves, every run() that
\* was started eventually ends.
C13_RunEndsOnceEveryTaskResolved ==
    /\ [](RunEnded => (PageTasksUnresolved = {} /\ DetailTasksUnresolved = {}))
    /\ []HungTaskBlocksOnlyItsPhase
    /\ <>RunEnded
    /\ (RunInProgress ~> RunEnded)

\* run() has returned after two page tasks and three detail tasks resolved
C13_Witness ==
    /\ pc = "done"
    /\ n_pages = 2
    /\ Len(finished) = 3


--------------------------------------------------------------------------
(* Claims about reset *)

\* a scraper that ran is in the state the reset model starts from
ResetStartsFromARun ==
    /\ area = AreaNormalize(<<"A", "m", " ", "s">>)
    /\ property_type = None
    /\ want_to = "buy"
    /\ find_past
    /\ page_start = 2
    /\ n_pages = 1
    /\ page_end = 2
    /\ min_price = None /\ max_price = None /\ days_since = None
    /\ HasRun(<<LinkA>>)
    /\ ScrapeIdle

\* run() was called again on a scraper that ran: the page task of the second
\* run is in flight while the table of the first is still stored
SecondRunInFlight ==
    /\ pc = "phase1"
    /\ Len(raw_df.rows) = 1
    /\ clean_df # EmptyFrame
    /\ \A i \in DOMAIN tasks : tasks[i].st = "running"

Kept(old, arg, new) == new = IF arg = None THEN old ELSE Val(arg)

KeptOptional(old, arg, new) == new = IF arg = None THEN old ELSE arg

KeptAtLeastOne(old, arg, new) ==
    /\ new = IF arg = None THEN old ELSE Max(Val(arg), 1)
    /\ arg # None => new >= 1

\* what the claim says of the step made by the call reset(a), parameter by
\* parameter, from the arguments of the call
OnlySuppliedFieldsChange(a) ==
    /\ Kept(area, a.area, area')
    /\ KeptOptional(property_type, a.property_type, property_type')
    /\ Kept(want_to, a.want_to, want_to')
    /\ KeptAtLeastOne(page_start, a.page_start, page_start')
    /\ KeptAtLeastOne(n_pages, a.n_pages, n_pages')
    /\ Kept(find_past, a.find_past, find_past')
    /\ KeptOptional(min_price, a.min_price, min_price')
    /\ KeptOptional(max_price, a.max_price, max_price')
    /\ KeptOptional(days_since, a.days_since, days_since')
    /\ links' = links
    /\ raw_df' = raw_df
    /\ clean_df' = clean_df
    /\ base_url' = base_url
    /\ selectors' = selectors

\* whichever call of reset makes the step
EveryResetCall == \A a \in ResetCalls : reset(a) => OnlySuppliedFieldsChange(a)

\* C14: for every call of reset, each of the nine query fields whose argument
\* is None keeps its value, each supplied one takes the supplied value
\* (page_start and n_pages at least 1), and links, raw_df, clean_df, base_url
\* and selectors are unchanged.
C14_ResetOverwritesOnlySuppliedFields ==
    [][EveryResetCall]_vars

\* after reset(find_past=True) and reset(want_to="rent", page_start=0) on a
\* scraper that ran: the fields are overwritten (page_start clamped to 1), the
\* area and the links are as before
C14_Witness ==
    /\ pc = "done"
    /\ want_to = "rent"
    /\ page_start = 1
    /\ area = AreaNormalize(<<"A", "m", " ", "s">>)
    /\ find_past
    /\ links = <<LinkA>>
    /\ Len(raw_df.rows) = 1


--------------------------------------------------------------------------
(* Claims about the detail tasks *)

FailureMarkers == {ListResult(<<>>), NoneResult}

\* what the gather holds for link i: nothing yet, a failure marker, or the
\* record of that link, which depends on no other task
SlotOfItsLink(c, i) ==
    \/ c = Running
    \/ c \in FailureMarkers
    \/ c = ListResult(DetailRecord(links[i]))

OneTaskResolvesAlone ==
    /\ pc' = "phase2"
    /\ \E i \in DOMAIN content :
         /\ content[i] = Running
         /\ content'[i] # Running
         /\ SlotOfItsLink(content'[i], i)
         /\ \A j \in DOMAIN content \ {i} : content'[j] = content[j]

\* C15: scrape_one_link never raises: the gather holds exactly one result per
\* link, a failing link's slot is a failure marker, every other slot is the
\* record of its own link, and a task that fails changes no sibling's slot and
\* does not end the gather.
C15_DetailFailuresAreIsolated ==
    /\ [](content # <<>> => /\ DOMAIN content = 1..Len(links)
                            /\ \A i \in DOMAIN content : SlotOfItsLink(content[i], i))
    /\ []((pc = "raised" /\ content # <<>>) => DetailTasksUnresolved = {})
    /\ [][(pc = "phase2" /\ content' # content) => OneTaskResolvesAlone]_vars

\* three links: the first raised inside its task, the third answered a
\* non-200 status, the second was scraped
C15_Witness ==
    /\ pc = "phase2"
    /\ Len(links) = 3
    /\ finished = <<1, 3, 2>>
    /\ content[1] = NoneResult
    /\ content[3] = ListResult(<<>>)
    /\ content[2] = ListResult(DetailRecord(links[2]))


--------------------------------------------------------------------------
(* Claims about the page tasks *)

\* the page range of the fields, which fetch_all_links takes when it is called
\* without arguments, as run() calls it
PageIndices == page_start..(page_start + n_pages - 1)

\* C16: every launched page task's result is consumed before the link set is
\* finalized (no task is dropped on the way), no page task resolves to an
\* exception (so the IndexError branch is never taken), and no step changes
\* page_end, also when pages yield zero links.
C16_DiscoveryNeverHaltsEarly ==
    /\ [](pc = "linked" => /\ entry = "run" => DOMAIN tasks = PageIndices
                           /\ done_queue = <<>>
                           /\ \A i \in DOMAIN tasks : tasks[i].st = "consumed")
    /\ [](\A i \in DOMAIN tasks : tasks[i].res.ok)
    /\ [][(pc = "phase1") => DOMAIN tasks' = DOMAIN tasks]_vars
    /\ [][page_end' = page_end]_vars

\* the link set is final after two pages, the first of which yielded no link
C16_Witness ==
    /\ pc = "linked"
    /\ n_pages = 2
    /\ DOMAIN tasks = PageIndices
    /\ tasks[page_start].fault = "none"
    /\ tasks[page_start].res.val = <<>>
    /\ tasks[page_start + 1].res.val # <<>>
    /\ Len(links) = Len(tasks[page_start + 1].res.val)


\* a call of fetch_all_links that got as far as launching its page tasks
PageLaunch == NoCallInProgress /\ pc' = "phase1"

\* the page arguments the call that made the step can have been given
LaunchArgs ==
    {a \in FetchPageStarts \X FetchPageCounts :
        \E e \in {"run", "fetch_all_links"} : FetchStart(e, a[1], a[2])}

\* the range [page_start, page_start + n_pages) of a call given ps and np
LaunchedRange(ps, np) ==
    {i \in TaskIndices : /\ ArgOr(page_start, ps) <= i
                         /\ i < ArgOr(page_start, ps) + ArgOr(n_pages, np)}

OneTaskPerIndexAtLaunch ==
    /\ LaunchArgs # {}
    /\ \A a \in LaunchArgs :
         /\ DOMAIN tasks' = LaunchedRange(a[1], a[2])
         /\ Cardinality(DOMAIN tasks') = ArgOr(n_pages, a[2])
    /\ \A i \in DOMAIN tasks' :
         tasks'[i].st = "running" /\ ~(Started(<<"page", i>>))'
    /\ urls' = <<>>

\* C17: a call of fetch_all_links launches exactly one page task for each
\* index of [page_start, page_start + n_pages), the range given by its
\* arguments or else by the fields, and none for any other index, each
\* requesting the query URL followed by '&search_result=<index>'; all of them
\* exist before any result is consumed and none is added later, so all
\* n_pages requests can be in flight at once.
C17_OnePageTaskPerIndex ==
    /\ [](pc \in {"phase1", "linked"} =>
            /\ entry = "run" => (/\ DOMAIN tasks = PageIndices
                                 /\ Cardinality(DOMAIN tasks) = n_pages)
            /\ \A i \in DOMAIN tasks :
                 UrlText(tasks[i].url) =
                    UrlText(Val(built).val) \o <<"&search_result=">> \o Str(i)
            /\ (\A i \in DOMAIN tasks : tasks[i].st # "consumed") => urls = <<>>)
    /\ [][PageLaunch => OneTaskPerIndexAtLaunch]_vars
    /\ [][(pc = "phase1") => DOMAIN tasks' = DOMAIN tasks]_vars

\* fetch_all_links(page_start=4) was called on a scraper of pages 2 and 3:
\* the requests for pages 4 and 5 are both in flight
C17_Witness ==
    /\ entry = "fetch_all_links"
    /\ pc = "phase1"
    /\ page_start = 2
    /\ n_pages = 2
    /\ DOMAIN tasks = {4, 5}
    /\ \A i \in {4, 5} : tasks[i].st = "running" /\ Started(<<"page", i>>)
    /\ tasks[5].url[Len(tasks[5].url)] = <<"&search_result=", "5">>


--------------------------------------------------------------------------
(* Claims about the HTTP sessions *)

ClosedSession(owner) == [owner |-> owner, state |-> "closed"]

PageTaskEnds(i) ==
    /\ i \in DOMAIN tasks /\ i \in DOMAIN tasks'
    /\ tasks[i].st = "running" /\ tasks'[i].st = "resolved"

DetailTaskEnds(i) ==
    /\ i \in DOMAIN content /\ i \in DOMAIN content'
    /\ content[i] = Running /\ content'[i] # Running

\* the owners of the tasks that end in the step
EndingTasks ==
    {<<"page", i>> : i \in {j \in TaskIndices : PageTaskEnds(j)}}
      \cup {<<"detail", i>> : i \in {j \in 1..Cardinality(Links) : DetailTaskEnds(j)}}

\* the owners of the tasks in flight
TasksInFlight ==
    {<<"page", i>> : i \in PageTasksUnresolved}
      \cup {<<"detail", i>> : i \in DetailTasksUnresolved}

\* a step closes the open session of the task that ends in it, or opens a
\* session for one task in flight that had none, or is a call on a scraper
\* with no coroutine in progress, which starts with no session, or touches
\* no session
SessionsFollowTheirTasks ==
    IF EndingTasks # {}
    THEN \E o \in EndingTasks :
            /\ EndingTasks = {o}
            /\ OpenSession(o) \in sessions
            /\ sessions' = (sessions \ {OpenSession(o)}) \cup {ClosedSession(o)}
    ELSE \/ sessions' = sessions
         \/ \E o \in TasksInFlight :
               /\ ~Started(o)
               /\ sessions' = sessions \cup {OpenSession(o)}
               /\ tasks' = tasks /\ content' = content
         \/ /\ NoCallInProgress
            /\ sessions' = {}

\* every session belongs to one task of the call, a task has at most one
\* session, the open sessions are those of tasks in flight, and a task that
\* has ended has its session closed
SessionsAreOfTheirTasks ==
    /\ \A x \in sessions :
         \/ x.owner[1] = "page" /\ x.owner[2] \in DOMAIN tasks
         \/ x.owner[1] = "page" /\ tasks = <<>> /\ x.state = "closed"
         \/ x.owner[1] = "detail" /\ x.owner[2] \in DOMAIN content
    /\ \A x, y \in sessions : x.owner = y.owner => x = y
    /\ \A i \in DOMAIN tasks :
         IF tasks[i].st = "running"
         THEN ClosedSession(<<"page", i>>) \notin sessions
         ELSE ClosedSession(<<"page", i>>) \in sessions
    /\ \A i \in DOMAIN content :
         IF content[i] = Running
         THEN ClosedSession(<<"detail", i>>) \notin sessions
         ELSE ClosedSession(<<"detail", i>>) \in sessions

\* C18: every page task and every detail task opens a session of its own on
\* its first step, no session belongs to two tasks, a task's session is closed
\* by the time its result is there, on every exit path, and no session is
\* open once run() (or fetch_all_links or scrape_pages, called on its own) has
\* ended.
C18_EveryTaskClosesItsOwnSession ==
    /\ []SessionsAreOfTheirTasks
    /\ [](NoCallInProgress => \A x \in sessions : x.state = "closed")
    /\ [][SessionsFollowTheirTasks]_vars

\* a page task whose request failed in transport has resolved with its
\* session closed, its result not yet consumed, while its sibling's request is
\* in flight on its own open session
C18_Witness ==
    /\ pc = "phase1"
    /\ n_pages = 2
    /\ DOMAIN tasks = PageIndices
    /\ tasks[page_start].fault = "transport"
    /\ tasks[page_start].st = "resolved"
    /\ ClosedSession(<<"page", page_start>>) \in sessions
    /\ OpenSession(<<"page", page_start>>) \notin sessions
    /\ OpenSession(<<"page", page_start + 1>>) \in sessions


--------------------------------------------------------------------------
(* Claims about the fields after reset *)

\* C19: after construction and after any sequence of reset calls,
\* page_start >= 1, n_pages >= 1 and page_end = page_start + n_pages - 1
\* (so page_start <= page_end).
C19_PageRangeWellFormed ==
    /\ page_start >= 1
    /\ n_pages >= 1
    /\ page_end = page_start + n_pages - 1
    /\ page_start <= page_end

NoUpperNoSpace(a) == \A k \in DOMAIN a : a[k] # " " /\ LowerChar(a[k]) = a[k]

\* the area between 'selected_area=%5B%22' and '%22%5D' in the first segment
AreaInUrl(u) == SubSeq(u[1], 5, Len(u[1]) - 1)

\* C20: after construction and after any sequence of reset calls the stored
\* area has no uppercase letter and no space, and so has the area in every
\* query URL built afterwards.
C20_AreaIsNormalized ==
    /\ NoUpperNoSpace(area)
    /\ (built # None /\ Val(built).ok) => NoUpperNoSpace(AreaInUrl(Val(built).val))

==========================================================================
